---- MODULE Spec2Model ----
(***************************************************************************)
(* Fulfillment-cost pipeline of invoice_prep.                              *)
(*                                                                         *)
(* The repository holds three copies of the calculation and one filter     *)
(* script; `entry` says which one a run goes through:                      *)
(*   "desktop"  src/src/app/calculator_logic.py  calculate_costs           *)
(*   "legacy"   src/calculator_logic.py          calculate_costs           *)
(*   "web"      src/app.py                       calculate                 *)
(*   "cli"      src/filter_orders.py             main                      *)
(*                                                                         *)
(* A data frame is a sequence of rows; a row keeps its pandas index label  *)
(* (idx), so a filtered frame still says which input rows it holds.        *)
(* Money is counted in thousandths of a currency unit (mills), so that     *)
(* round(x, 2) is a real rounding to a multiple of 10 mills.               *)
(* Order names are the numbers 1..MaxOrders (single-character names, for   *)
(* which pandas' sorted group order is the numeric order).                 *)
(***************************************************************************)
EXTENDS Integers, Sequences, FiniteSets, TLC

VARIABLES
    entry,            \* which entry point runs
    file_exists,      \* whether the input file can be opened
    columns,          \* df.columns: the column names of the table read
    df,               \* the table read from the CSV
    first_sku_cost, next_sku_cost, unit_cost,      \* tariffs, in mills
    start_date_str, end_date_str,                  \* a day number, or NoDate
    excluded_skus,    \* user exclusion list (desktop only)
    pc,               \* position of the run
    fulfilled_df,     \* working frame (filtered_df in filter_orders.py)
    status_df,        \* the frame right after the status filter
    main_df,          \* filter_orders.py: rows of the orders not set aside
    problematic_orders_df,  \* filter_orders.py: rows set aside
    orders,           \* groupby('Name'): sequence of [name, group]
    order_summaries,  \* per-order records emitted (processed_orders_list)
    total_cost_bgn_acc, total_units_acc,  \* legacy/web loop accumulators
    totals,           \* the totals of the result
    line_item_df,     \* desktop: the line-item table of the result
    error,            \* <<>> when there is none, else the message
    returned,         \* "none", "error" or "success"
    result_keys,      \* the keys of the dictionary returned
    window,           \* which main window runs: "app", "legacy", or "none"
    filepath_edit,    \* text of the file path field
    calculate_enabled, calculate_text,   \* the Calculate button
    export_enabled,   \* the Export button
    results_data,     \* self.results_data
    worker,           \* self.worker / self.thread: the run they belong to, 0 for None
    runs,             \* calculations started so far
    pending_runs,     \* workers started whose slot has not run yet
    signal,           \* the worker signal queued for the main thread
    signals_emitted,  \* signals emitted by the current worker
    message_box,      \* the last message box shown
    slot_exception    \* the last exception that escaped a slot

inputs == <<entry, file_exists, columns, df, first_sku_cost, next_sku_cost,
            unit_cost, start_date_str, end_date_str, excluded_skus>>

work == <<fulfilled_df, status_df, main_df, problematic_orders_df, orders,
          order_summaries, total_cost_bgn_acc, total_units_acc>>

outputs == <<totals, line_item_df, error, returned, result_keys>>

ui == <<window, filepath_edit, calculate_enabled, calculate_text, export_enabled,
        results_data, worker, runs, pending_runs, signal, signals_emitted,
        message_box, slot_exception>>

vars == <<inputs, pc, work, outputs, ui>>

----------------------------------------------------------------------------
\* Bounds of the model

MaxRows == 2

MaxOrders == 2

MaxRuns == 2

----------------------------------------------------------------------------
\* Program constants

\* end_date.replace(hour=23, minute=59, second=59)
EndOfDay == 23 * 3600 + 59 * 60 + 59

SecondsPerDay == EndOfDay + 1

\* EUR_TO_BGN_RATE = 1.95583, as the fraction RateNum / RateDen
RateNum == 195583

RateDen == 100000

Entries == {"desktop", "legacy", "web", "cli"}

CalcEntries == {"desktop", "legacy", "web"}

AllColumns == {"Fulfillment Status", "Name", "Lineitem quantity", "Lineitem sku",
               "Lineitem name", "Fulfilled at", "Lineitem price"}

\* required_columns of each calculator, in the order the loop walks them
required_columns(e) ==
    IF e = "desktop"
    THEN <<"Fulfillment Status", "Name", "Lineitem quantity", "Lineitem sku",
           "Lineitem name", "Fulfilled at">>
    ELSE <<"Fulfillment Status", "Name", "Lineitem quantity", "Lineitem sku",
           "Fulfilled at">>

\* critical_columns of filter_orders.main
critical_columns == <<"Fulfilled at", "Lineitem sku", "Lineitem quantity",
                      "Lineitem price", "Name">>

----------------------------------------------------------------------------
\* Values of cells

NoDate == -1          \* start_date_str / end_date_str not supplied (None or "")

NaT == -1             \* pd.to_datetime(..., errors='coerce') on a bad cell

NaN == "NaN"          \* a missing cell of a string column

NaName == 0           \* a missing 'Name' cell

\* A 'Fulfilled at' cell: empty, unparsable text, or a timestamp text
EmptyCell == [kind |-> "empty", day |-> 0, sec |-> 0, off |-> 0]

BadCell == [kind |-> "bad", day |-> 0, sec |-> 0, off |-> 0]

\* a timestamp text with a UTC offset of `o` seconds: wall clock day d, second s
TsCellTz(d, s, o) == [kind |-> "ts", day |-> d, sec |-> s, off |-> o]

\* a timestamp text without offset
TsCell(d, s) == TsCellTz(d, s, 0)

\* pd.to_datetime(cell, errors='coerce'): seconds since day 0, or NaT
ToDatetime(cell) ==
    IF cell.kind = "ts" THEN cell.day * SecondsPerDay + cell.sec ELSE NaT

\* pd.to_datetime(cell, errors='coerce', utc=True): the instant in UTC, the
\* offset subtracted from the wall clock
ToDatetimeUtc(cell) ==
    IF cell.kind = "ts" THEN cell.day * SecondsPerDay + cell.sec - cell.off ELSE NaT

\* pd.Timestamp(s) / datetime.strptime(s, '%Y-%m-%d'): midnight of the day
DayStart(d) == d * SecondsPerDay

\* .dt.date of a parsed timestamp
DateOf(ts) == ts \div SecondsPerDay

----------------------------------------------------------------------------
\* Arithmetic helpers

RECURSIVE SumOver(_, _)
\* sum of f over a sequence of records: s[1].f + ... + s[Len(s)].f
SumOver(s, f) == IF s = <<>> THEN 0 ELSE s[1][f] + SumOver(Tail(s), f)

\* round(x, 2) of a non-negative amount in mills: nearest multiple of 10,
\* a tie going to the even cent
Round2(x) ==
    LET q == x \div 10
        r == x % 10
    IN  IF r < 5 THEN q * 10
        ELSE IF r > 5 THEN (q + 1) * 10
        ELSE IF q % 2 = 0 THEN q * 10 ELSE (q + 1) * 10

\* round(bgn / EUR_TO_BGN_RATE, 2), bgn in mills, result in mills: the
\* quotient bgn * RateDen / (RateNum * 10) in cents, with the common factor
\* 10 taken out to stay within TLC's integers
ToEur(bgn) ==
    LET num == bgn * (RateDen \div 10)
        den == RateNum
        q == num \div den
        r == num % den
    IN  IF 2 * r < den THEN q * 10
        ELSE IF 2 * r > den THEN (q + 1) * 10
        ELSE IF q % 2 = 0 THEN q * 10 ELSE (q + 1) * 10

----------------------------------------------------------------------------
\* Frames

Names(rows) == {rows[i].Name : i \in 1..Len(rows)}

Idxs(rows) == {rows[i].idx : i \in 1..Len(rows)}

RowsOf(rows, name) == SelectSeq(rows, LAMBDA r : r.Name = name)

\* mutant of StatusFilter: the status compared without regard to case
StatusFilter_ignore_case(rows) ==
    SelectSeq(rows, LAMBDA r : r.status \in {"fulfilled", "Fulfilled"})

\* df[df['Fulfillment Status'] == 'fulfilled']
StatusFilter(rows) == SelectSeq(rows, LAMBDA r : r.status = "fulfilled")

\* mutant of SkuFilter: an order with a listed SKU loses all its rows
SkuFilter_drops_order(rows, excluded) ==
    SelectSeq(rows, LAMBDA r :
        \A i \in 1..Len(rows) : rows[i].Name = r.Name => rows[i].sku \notin excluded)

\* mutant of SkuFilter: a non-empty list selects the rows to keep
SkuFilter_keeps_listed(rows, excluded) ==
    IF excluded = {} THEN rows
    ELSE SelectSeq(rows, LAMBDA r : r.sku \in excluded)

\* mutant of SkuFilter: the exclusion list is not applied
SkuFilter_not_applied(rows, excluded) == rows

\* if excluded_skus: df[~df['Lineitem sku'].isin(excluded_skus)]
SkuFilter(rows, excluded) ==
    IF excluded = {} THEN rows
    ELSE SelectSeq(rows, LAMBDA r : r.sku \notin excluded)

\* the end bound each entry point compares against
EndBound(e, end_day) ==
    IF e = "web" THEN DayStart(end_day) ELSE DayStart(end_day) + EndOfDay

\* rows whose parsed date is not NaT and lies within [start, end bound]
InRange(e, rows, start_day, end_day) ==
    SelectSeq(rows, LAMBDA r :
        /\ ToDatetime(r.fulfilled_at) # NaT
        /\ ToDatetime(r.fulfilled_at) >= DayStart(start_day)
        /\ ToDatetime(r.fulfilled_at) <= EndBound(e, end_day))

\* desktop: the orders with a row in range keep all their rows
KeepValidOrders(rows, start_day, end_day) ==
    LET valid_order_names == Names(InRange("desktop", rows, start_day, end_day))
    IN  SelectSeq(rows, LAMBDA r : r.Name \in valid_order_names)

\* the date stage of a calculator, applied when both dates are supplied
DateFilter(e, rows, start_day, end_day) ==
    IF start_day = NoDate \/ end_day = NoDate THEN rows
    ELSE IF e = "desktop" THEN KeepValidOrders(rows, start_day, end_day)
    ELSE InRange(e, rows, start_day, end_day)

\* the keys of df.groupby('Name'), in the sorted order pandas walks them
RECURSIVE SortedKeys(_)
SortedKeys(S) ==
    IF S = {} THEN <<>>
    ELSE LET m == CHOOSE x \in S : \A y \in S : x <= y
         IN  <<m>> \o SortedKeys(S \ {m})

\* df.groupby('Name'): one group per non-missing name, rows in frame order
GroupBy(rows) ==
    LET keys == SortedKeys(Names(rows) \ {NaName})
    IN  [i \in 1..Len(keys) |-> [name |-> keys[i], group |-> RowsOf(rows, keys[i])]]

\* order_group['Lineitem sku'].nunique(): distinct non-missing values
nunique(group) == Cardinality({group[i].sku : i \in 1..Len(group)} \ {NaN})

\* mutant of order_units: the rows are counted, not their quantities
order_units_counts_rows(group) == Len(group)

\* order_group['Lineitem quantity'].sum()
order_units(group) == SumOver(group, "quantity")

\* mutant of order_cost_bgn: the first-SKU cost charged to single-SKU orders only
order_cost_bgn_first_if_single(unique_skus, units, first, next, unit) ==
    (IF unique_skus = 1 THEN first ELSE 0)
    + (IF unique_skus > 1 THEN (unique_skus - 1) * next ELSE 0)
    + units * unit

\* mutant of order_cost_bgn: every SKU charged as a next SKU
order_cost_bgn_every_sku_next(unique_skus, units, first, next, unit) ==
    (IF unique_skus > 0 THEN first ELSE 0)
    + (IF unique_skus > 1 THEN unique_skus * next ELSE 0)
    + units * unit

\* the tariff formula of the loop body, before rounding
order_cost_bgn(unique_skus, units, first, next, unit) ==
    (IF unique_skus > 0 THEN first ELSE 0)
    + (IF unique_skus > 1 THEN (unique_skus - 1) * next ELSE 0)
    + units * unit

\* the record appended for one order
OrderSummary(o, first, next, unit) ==
    [name |-> o.name,
     unique_skus |-> nunique(o.group),
     units |-> order_units(o.group),
     cost |-> Round2(order_cost_bgn(nunique(o.group), order_units(o.group), first, next, unit))]

\* the loop over the groups
Summaries(groups, first, next, unit) ==
    [i \in 1..Len(groups) |-> OrderSummary(groups[i], first, next, unit)]

\* legacy and web: total_cost_bgn += order_cost_bgn, the unrounded costs
LoopCost(groups, first, next, unit) ==
    SumOver([i \in 1..Len(groups) |->
                [raw |-> order_cost_bgn(nunique(groups[i].group),
                                        order_units(groups[i].group),
                                        first, next, unit)]], "raw")

\* legacy and web: total_units += order_units
LoopUnits(groups) ==
    SumOver([i \in 1..Len(groups) |-> [u |-> order_units(groups[i].group)]], "u")

ZeroTotals == [processed_orders_count |-> 0, total_units |-> 0,
               total_cost_bgn |-> 0, total_cost_eur |-> 0]

\* desktop: totals folded from the summary frame (rounded per-order costs)
DesktopTotals(summaries) ==
    [processed_orders_count |-> Len(summaries),
     total_units |-> SumOver(summaries, "units"),
     total_cost_bgn |-> Round2(SumOver(summaries, "cost")),
     total_cost_eur |-> ToEur(SumOver(summaries, "cost"))]

\* legacy and web: totals from the accumulators of the loop
LoopTotals(summaries, cost_acc, units_acc) ==
    [processed_orders_count |-> Len(summaries),
     total_units |-> units_acc,
     total_cost_bgn |-> Round2(cost_acc),
     total_cost_eur |-> ToEur(cost_acc)]

\* mutant of FirstMissing: the loop reports the last missing column
FirstMissing_last(e, cols) ==
    LET req == required_columns(e)
        miss == {i \in 1..Len(req) : req[i] \notin cols}
    IN  IF miss = {} THEN NaN
        ELSE req[CHOOSE i \in miss : \A j \in miss : i >= j]

\* first required column that the table lacks, or NaN when none is missing
FirstMissing(e, cols) ==
    LET req == required_columns(e)
        miss == {i \in 1..Len(req) : req[i] \notin cols}
    IN  IF miss = {} THEN NaN
        ELSE req[CHOOSE i \in miss : \A j \in miss : i <= j]

\* filter_orders: rows with a null in one of check_cols (the quantity cell
\* of a modelled row is never null)
HasNull(r) ==
    \/ r.fulfilled_at.kind = "empty"
    \/ r.sku = NaN
    \/ r.price = NaN

\* filter_orders: names of the orders that have a row with a null
problematic_order_ids(rows) == Names(SelectSeq(rows, HasNull))

\* filter_orders: names of the orders with a date that fails to convert
failed_orders_ids(rows) ==
    Names(SelectSeq(rows, LAMBDA r : ToDatetime(r.fulfilled_at) = NaT))

\* filter_orders: the date mask, compared by calendar date
DateMask(rows, start_day, end_day) ==
    SelectSeq(rows, LAMBDA r :
        /\ DateOf(ToDatetimeUtc(r.fulfilled_at)) >= start_day
        /\ DateOf(ToDatetimeUtc(r.fulfilled_at)) <= end_day)

----------------------------------------------------------------------------
\* Actions

TotalsKeys == {"processed_orders_count", "total_units", "total_cost_bgn", "total_cost_eur"}

\* the keys of the dictionary an entry point returns: an error result, the
\* result of the empty-frame return, or the result of the final return;
\* filter_orders returns nothing
ResultKeys(e, kind, empty) ==
    IF e = "cli" THEN {}
    ELSE IF kind = "error" THEN {"error"}
    ELSE IF e = "desktop" THEN {"totals", "order_summary_df", "line_item_df", "error"}
    ELSE IF e = "legacy" /\ ~empty THEN TotalsKeys \cup {"orders", "error"}
    ELSE TotalsKeys \cup {"orders"}

Return(kind, msg) ==
    /\ returned' = kind
    /\ result_keys' = ResultKeys(entry, kind, fulfilled_df = <<>>)
    /\ error' = msg
    /\ pc' = "done"

\* mutant of NoFileMessage: the calculators have no FileNotFoundError clause,
\* so the generic handler reports the failure
NoFileMessage_generic(e) ==
    IF e = "web" THEN <<"No file part">>
    ELSE IF e = "cli" THEN <<"Input file not found">>
    ELSE <<"An unexpected error occurred", "No such file or directory">>

\* the message each entry point gives when the input file is absent
NoFileMessage(e) ==
    IF e = "web" THEN <<"No file part">>
    ELSE IF e = "cli" THEN <<"Input file not found">>
    ELSE <<"The specified file was not found.">>

\* the input file cannot be opened: FileNotFoundError (calculators), no
\* uploaded file (web), os.path.exists false (filter_orders)
NoFile ==
    /\ pc = "start"
    /\ ~file_exists
    /\ Return("error", NoFileMessage(entry))
    /\ UNCHANGED <<ui, inputs, work, totals, line_item_df>>

\* df = pd.read_csv(...)
ReadCsv ==
    /\ pc = "start"
    /\ file_exists
    /\ pc' = "read"
    /\ UNCHANGED <<ui, inputs, work, outputs>>

\* mutant of ValidateFail: the missing column is noticed but the run goes on
ValidateFail_continues ==
    /\ pc = "read"
    /\ entry \in CalcEntries
    /\ FirstMissing(entry, columns) # NaN
    /\ pc' = "validated"
    /\ UNCHANGED <<ui, inputs, work, outputs>>

\* for col in required_columns: if col not in df.columns: return error
ValidateFail ==
    /\ pc = "read"
    /\ entry \in CalcEntries
    /\ FirstMissing(entry, columns) # NaN
    /\ Return("error", <<"Missing required column", FirstMissing(entry, columns)>>)
    /\ UNCHANGED <<ui, inputs, work, totals, line_item_df>>

ValidateOk ==
    /\ pc = "read"
    /\ entry \in CalcEntries
    /\ FirstMissing(entry, columns) = NaN
    /\ pc' = "validated"
    /\ UNCHANGED <<ui, inputs, work, outputs>>

\* fulfilled_df = df[df['Fulfillment Status'] == 'fulfilled'].copy()
FilterStatus ==
    /\ \/ entry \in CalcEntries /\ pc = "validated"
       \/ entry = "cli" /\ pc = "split" /\ "Fulfillment Status" \in columns
    /\ fulfilled_df' = StatusFilter(IF entry = "cli" THEN main_df ELSE df)
    /\ status_df' = fulfilled_df'
    /\ pc' = "status_filtered"
    /\ UNCHANGED <<ui, inputs, main_df, problematic_orders_df, orders, order_summaries,
                   total_cost_bgn_acc, total_units_acc, outputs>>

\* desktop: drop the excluded SKUs before any calculation
FilterSku ==
    /\ entry = "desktop"
    /\ pc = "status_filtered"
    /\ fulfilled_df' = SkuFilter(fulfilled_df, excluded_skus)
    /\ pc' = "sku_filtered"
    /\ UNCHANGED <<ui, inputs, status_df, main_df, problematic_orders_df, orders,
                   order_summaries, total_cost_bgn_acc, total_units_acc, outputs>>

\* the date stage of the three calculators
FilterDate ==
    /\ \/ entry = "desktop" /\ pc = "sku_filtered"
       \/ entry \in {"legacy", "web"} /\ pc = "status_filtered"
    /\ fulfilled_df' = DateFilter(entry, fulfilled_df, start_date_str, end_date_str)
    /\ pc' = "filtered"
    /\ UNCHANGED <<ui, inputs, status_df, main_df, problematic_orders_df, orders,
                   order_summaries, total_cost_bgn_acc, total_units_acc, outputs>>

\* mutant of ReturnEmpty: an empty filter result is reported as an error
ReturnEmpty_as_error ==
    /\ entry \in CalcEntries
    /\ pc = "filtered"
    /\ fulfilled_df = <<>>
    /\ Return("error", <<"No orders found">>)
    /\ UNCHANGED <<ui, inputs, work, totals, line_item_df>>

\* if fulfilled_df.empty: return the zero-valued result
ReturnEmpty ==
    /\ entry \in CalcEntries
    /\ pc = "filtered"
    /\ fulfilled_df = <<>>
    /\ totals' = ZeroTotals
    /\ line_item_df' = <<>>
    /\ Return("success", <<>>)
    /\ UNCHANGED <<ui, inputs, work>>

\* fulfilled_df.groupby('Name')
Group ==
    /\ entry \in CalcEntries
    /\ pc = "filtered"
    /\ fulfilled_df # <<>>
    /\ orders' = GroupBy(fulfilled_df)
    /\ pc' = "grouped"
    /\ UNCHANGED <<ui, inputs, fulfilled_df, status_df, main_df, problematic_orders_df,
                   order_summaries, total_cost_bgn_acc, total_units_acc, outputs>>

\* the loop over the groups: one summary per order (legacy and web also
\* accumulate the unrounded cost and the units)
Price ==
    /\ pc = "grouped"
    /\ order_summaries' = Summaries(orders, first_sku_cost, next_sku_cost, unit_cost)
    /\ IF entry = "desktop"
       THEN UNCHANGED <<total_cost_bgn_acc, total_units_acc>>
       ELSE /\ total_cost_bgn_acc' = LoopCost(orders, first_sku_cost, next_sku_cost, unit_cost)
            /\ total_units_acc' = LoopUnits(orders)
    /\ pc' = "priced"
    /\ UNCHANGED <<ui, inputs, fulfilled_df, status_df, main_df, problematic_orders_df,
                   orders, outputs>>

\* totals, the line-item table (desktop) and the success result
Summarize ==
    /\ pc = "priced"
    /\ totals' = IF entry = "desktop" THEN DesktopTotals(order_summaries)
                 ELSE LoopTotals(order_summaries, total_cost_bgn_acc, total_units_acc)
    /\ line_item_df' = IF entry = "desktop" THEN fulfilled_df ELSE <<>>
    /\ Return("success", <<>>)
    /\ UNCHANGED <<ui, inputs, work>>

\* filter_orders: a critical column is missing
CliMissingColumns ==
    /\ entry = "cli"
    /\ pc = "read"
    /\ \E i \in 1..Len(critical_columns) : critical_columns[i] \notin columns
    /\ Return("error", <<"critical columns are missing">>)
    /\ UNCHANGED <<ui, inputs, work, totals, line_item_df>>

\* filter_orders: set aside the orders that have a row with a null
CliSplitProblematic ==
    /\ entry = "cli"
    /\ pc = "read"
    /\ \A i \in 1..Len(critical_columns) : critical_columns[i] \in columns
    /\ problematic_orders_df' =
          SelectSeq(df, LAMBDA r : r.Name \in problematic_order_ids(df))
    /\ main_df' = SelectSeq(df, LAMBDA r : r.Name \notin problematic_order_ids(df))
    /\ pc' = "split"
    /\ UNCHANGED <<ui, inputs, fulfilled_df, status_df, orders, order_summaries,
                   total_cost_bgn_acc, total_units_acc, outputs>>

\* filter_orders: 'Fulfillment Status' column not found
CliNoStatusColumn ==
    /\ entry = "cli"
    /\ pc = "split"
    /\ "Fulfillment Status" \notin columns
    /\ Return("error", <<"'Fulfillment Status' column not found.">>)
    /\ UNCHANGED <<ui, inputs, work, totals, line_item_df>>

\* filter_orders: convert the dates; orders with an unreadable date are
\* appended to the problematic frame, the unreadable rows are dropped
CliParseDates ==
    /\ entry = "cli"
    /\ pc = "status_filtered"
    /\ problematic_orders_df' = problematic_orders_df \o
          SelectSeq(fulfilled_df, LAMBDA r : r.Name \in failed_orders_ids(fulfilled_df))
    /\ fulfilled_df' = SelectSeq(fulfilled_df, LAMBDA r : ToDatetime(r.fulfilled_at) # NaT)
    /\ pc' = "parsed"
    /\ UNCHANGED <<ui, inputs, status_df, main_df, orders, order_summaries,
                   total_cost_bgn_acc, total_units_acc, outputs>>

\* filter_orders: keep the rows whose date lies in the range, and write them
CliFilterDate ==
    /\ entry = "cli"
    /\ pc = "parsed"
    /\ fulfilled_df' = DateMask(fulfilled_df, start_date_str, end_date_str)
    /\ pc' = "filtered"
    /\ UNCHANGED <<ui, inputs, status_df, main_df, problematic_orders_df, orders,
                   order_summaries, total_cost_bgn_acc, total_units_acc, outputs>>

\* filter_orders: the two sheets are written
CliWrite ==
    /\ entry = "cli"
    /\ pc = "filtered"
    /\ line_item_df' = fulfilled_df
    /\ totals' = totals
    /\ Return("success", <<>>)
    /\ UNCHANGED <<ui, inputs, work>>

Next ==
    \/ NoFile
    \/ ReadCsv
    \/ ValidateFail
    \/ ValidateOk
    \/ FilterStatus
    \/ FilterSku
    \/ FilterDate
    \/ ReturnEmpty
    \/ Group
    \/ Price
    \/ Summarize
    \/ CliMissingColumns
    \/ CliSplitProblematic
    \/ CliNoStatusColumn
    \/ CliParseDates
    \/ CliFilterDate
    \/ CliWrite

\* the totals of one whole desktop run, as a function of its arguments: the
\* stages of calculate_costs composed in the order the function applies them
calculate_costs(table, first, next, unit, start_day, end_day, excluded) ==
    LET dated == DateFilter("desktop",
                            SkuFilter(StatusFilter(table), excluded),
                            start_day, end_day)
    IN  IF dated = <<>> THEN ZeroTotals
        ELSE DesktopTotals(Summaries(GroupBy(dated), first, next, unit))

----------------------------------------------------------------------------
\* Inputs of a run

OrderNames == 1..MaxOrders

Row(n, q, s, st, f) ==
    [Name |-> n, quantity |-> q, sku |-> s, status |-> st, fulfilled_at |-> f,
     price |-> "9.99"]

\* the tables of at most maxlen rows drawn from pool, indexed 1..n as read_csv does
Tables(pool, maxlen) ==
    UNION {{[i \in 1..n |-> [idx |-> i] @@ t[i]] : t \in [1..n -> pool]} : n \in 0..maxlen}

NoRange == <<NoDate, NoDate>>

\* tariffs <<first_sku_cost, next_sku_cost, unit_cost>> in mills; their last
\* digits are even, so no cost is an exact half cent
TestTariff == <<10000, 5000, 2000>>

SubCentTariff == <<2304, 1102, 404>>

UnitOnlyTariff == <<0, 0, 4>>

\* nothing computed and nothing returned yet
FreshFrames ==
    /\ fulfilled_df = <<>> /\ status_df = <<>> /\ main_df = <<>>
    /\ problematic_orders_df = <<>> /\ orders = <<>> /\ order_summaries = <<>>
    /\ total_cost_bgn_acc = 0 /\ total_units_acc = 0
    /\ totals = ZeroTotals /\ line_item_df = <<>>
    /\ error = <<>> /\ returned = "none" /\ result_keys = {}

Fresh == pc = "start" /\ FreshFrames

NoResults == [run |-> 0, keys |-> {}, error |-> <<>>]

\* MainWindow.__init__ and create_action_buttons: Calculate enabled with its
\* idle label, Export disabled, no results, no worker
WindowCreated ==
    /\ calculate_enabled = TRUE /\ calculate_text = "idle"
    /\ export_enabled = FALSE
    /\ results_data = NoResults
    /\ worker = 0 /\ runs = 0 /\ pending_runs = 0
    /\ signal = "none" /\ signals_emitted = 0
    /\ message_box = "none" /\ slot_exception = "none"

\* a direct call of an entry point: no window
NoWindow == window = "none" /\ filepath_edit = "" /\ WindowCreated

Config(tariff, range, excluded) ==
    /\ first_sku_cost = tariff[1] /\ next_sku_cost = tariff[2] /\ unit_cost = tariff[3]
    /\ start_date_str = range[1] /\ end_date_str = range[2]
    /\ excluded_skus = excluded

\* A run over a table of rows from pool: any entry point; the file may be
\* absent, or the table may lack columns; filter_orders always gets both
\* dates (argparse requires them) and only the desktop calculator takes an
\* exclusion list.
InitWith(pool, tariffs, ranges, exclusions) ==
    /\ Fresh
    /\ NoWindow
    /\ entry \in Entries
    /\ \/ /\ file_exists = FALSE
          /\ columns = {} /\ df = <<>>
          /\ Config(TestTariff, <<1, 1>>, {})
       \/ /\ file_exists = TRUE
          /\ columns \in (SUBSET AllColumns) \ {AllColumns}
          /\ df \in Tables(pool, 1)
          /\ Config(TestTariff, <<1, 1>>, {})
       \/ /\ file_exists = TRUE
          /\ columns = AllColumns
          /\ df \in Tables(pool, MaxRows)
          /\ \E t \in (IF entry = "cli" THEN {TestTariff} ELSE tariffs),
                r \in (IF entry = "cli" THEN ranges \ {NoRange} ELSE ranges),
                x \in (IF entry = "desktop" THEN exclusions ELSE {{}}) :
                Config(t, r, x)

\* rows that differ in order, SKU and quantity; all fulfilled on day 1
CostPool ==
    {Row(n, q, s, "fulfilled", TsCell(1, 0)) :
        n \in OrderNames, q \in {1, 2}, s \in {"A", "B", NaN}}

Init ==
    InitWith(CostPool, {TestTariff, SubCentTariff, UnitOnlyTariff},
             {NoRange, <<1, 1>>}, {{}, {"A"}})

Spec == Init /\ [][Next]_vars

\* rows of SKU A that differ in order and fulfilment date: an empty cell, an
\* unreadable one, the last second of day 0, the first and last second of
\* day 1, the second second of day 2; and rows of SKU B inside and outside day 1
DatePool ==
    {Row(n, 1, "A", "fulfilled", f) :
        n \in OrderNames,
        f \in {EmptyCell, BadCell, TsCell(0, EndOfDay), TsCell(1, 0),
               TsCell(1, EndOfDay), TsCell(2, 1)}}
    \cup {Row(n, 1, "B", "fulfilled", f) :
            n \in OrderNames, f \in {TsCell(1, 0), TsCell(2, 1)}}

InitDate ==
    InitWith(DatePool, {TestTariff},
             {NoRange, <<1, 1>>, <<0, 1>>, <<1, NoDate>>, <<2, 1>>}, {{}})

SpecDate == InitDate /\ [][Next]_vars

\* fulfilled rows that differ in order, SKU and day, and rows of each order
\* whose status is "Fulfilled" or missing
\* the fixed set of virtual/service SKUs the specification says is always
\* excluded; the source holds no such set, so its member is a stand-in
BuiltInSkus == {"VIRTUAL"}

FilterPool ==
    {Row(n, 1, s, "fulfilled", TsCell(d, 1)) :
        n \in OrderNames, s \in {"A", "B"}, d \in {1, 2}}
    \cup {Row(n, 1, s, "fulfilled", TsCell(1, 1)) : n \in OrderNames, s \in BuiltInSkus}
    \cup {Row(n, 1, "A", st, TsCell(1, 1)) : n \in OrderNames, st \in {"Fulfilled", NaN}}

InitFilter ==
    InitWith(FilterPool, {TestTariff}, {NoRange, <<1, 1>>}, {{}, {"A"}, {"A", "B"}})

SpecFilter == InitFilter /\ [][Next]_vars

\* The runs used for the order of the stages and for termination: every
\* entry point over short tables of dated rows.  calculate_costs is one
\* sequential call: once started, its next statement is always executed, which
\* is weak fairness of Next.
LivePool ==
    {Row(n, 1, "A", "fulfilled", TsCell(d, 1)) : n \in OrderNames, d \in {1, 2}}

InitLive == InitWith(LivePool, {TestTariff}, {NoRange, <<1, 1>>}, {{}, {"A"}})

SpecLive == InitLive /\ [][Next]_vars /\ WF_vars(Next)

\* Runs over tables whose timestamps all carry one UTC offset (none, or two
\* hours east), half an hour after midnight of day 1 or of day 2
OffsetEast == 2 * 3600

HalfHour == 1800

TzPool(o) ==
    {Row(n, 1, "A", "fulfilled", TsCellTz(d, HalfHour, o)) : n \in OrderNames, d \in {1, 2}}

InitTz ==
    \E o \in {0, OffsetEast} :
        InitWith(TzPool(o), {TestTariff}, {NoRange, <<1, 1>>, <<2, 2>>}, {{}})

SpecTz == InitTz /\ [][Next]_vars

----------------------------------------------------------------------------
\* The main windows.  "app" is src/src/app/main_app.py, which runs
\* calculate_costs of src/src/app/calculator_logic.py in a worker thread;
\* "legacy" is src/main_app.py, which calls calculate_costs of
\* src/calculator_logic.py in the slot itself.

\* the rows of the tables chosen in the file dialog
UIPool ==
    {Row(1, 1, s, "fulfilled", TsCell(d, 1)) : s \in {"A", "B"}, d \in {1, 2}}

\* open_file_dialog: a file is chosen
OpenFileDialog ==
    /\ window \in {"app", "legacy"}
    /\ filepath_edit = ""
    /\ filepath_edit' = "orders.csv"
    /\ UNCHANGED <<inputs, pc, work, outputs, window, calculate_enabled, calculate_text,
                   export_enabled, results_data, worker, runs, pending_runs, signal,
                   signals_emitted, message_box, slot_exception>>

\* run_calculation with an empty path: a warning, and nothing else
RunCalculationNoPath ==
    /\ window \in {"app", "legacy"}
    /\ calculate_enabled
    /\ filepath_edit = ""
    /\ message_box = "none"
    /\ message_box' = "warning"
    /\ UNCHANGED <<inputs, pc, work, outputs, window, filepath_edit, calculate_enabled,
                   calculate_text, export_enabled, results_data, worker, runs,
                   pending_runs, signal, signals_emitted, slot_exception>>

\* mutant of DisableForRun: the Calculate button is left enabled
DisableForRun_calculate_left_enabled ==
    /\ calculate_enabled' = calculate_enabled
    /\ calculate_text' = "busy"
    /\ export_enabled' = FALSE

\* run_calculation: both buttons are disabled before the worker is made
DisableForRun ==
    /\ calculate_enabled' = FALSE
    /\ calculate_text' = "busy"
    /\ export_enabled' = FALSE

\* run_calculation of "app": a click on the enabled Calculate button with a
\* path set disables the buttons, makes a worker with the form's values and
\* starts its thread.  The file and the form are the environment's choice;
\* the date fields always hold a date.
RunCalculation ==
    /\ window = "app"
    /\ calculate_enabled
    /\ filepath_edit # ""
    /\ runs < MaxRuns
    /\ DisableForRun
    /\ worker' = runs + 1
    /\ runs' = runs + 1
    /\ pending_runs' = pending_runs + 1
    /\ signals_emitted' = 0
    /\ entry' = "desktop"
    /\ \/ /\ file_exists' = FALSE
          /\ columns' = {} /\ df' = <<>>
       \/ /\ file_exists' = TRUE
          /\ columns' = AllColumns \ {"Name"}
          /\ df' \in Tables(UIPool, 1)
       \/ /\ file_exists' = TRUE
          /\ columns' = AllColumns
          /\ df' \in Tables(UIPool, MaxRows)
    /\ first_sku_cost' = TestTariff[1]
    /\ next_sku_cost' = TestTariff[2]
    /\ unit_cost' = TestTariff[3]
    /\ start_date_str' = 1 /\ end_date_str' = 1
    /\ excluded_skus' \in {{}, {"A"}}
    /\ pc' = "start"
    /\ fulfilled_df' = <<>> /\ status_df' = <<>> /\ main_df' = <<>>
    /\ problematic_orders_df' = <<>> /\ orders' = <<>> /\ order_summaries' = <<>>
    /\ total_cost_bgn_acc' = 0 /\ total_units_acc' = 0
    /\ totals' = ZeroTotals /\ line_item_df' = <<>>
    /\ error' = <<>> /\ returned' = "none" /\ result_keys' = {}
    /\ UNCHANGED <<window, filepath_edit, results_data, signal, message_box,
                   slot_exception>>

\* Worker.run after calculate_costs has returned: error is emitted when the
\* result has an error message, else finished
WorkerEmit ==
    /\ window = "app"
    /\ worker # 0
    /\ pc = "done"
    /\ signals_emitted = 0
    /\ signal' = IF error # <<>> THEN "error" ELSE "finished"
    /\ signals_emitted' = 1
    /\ UNCHANGED <<inputs, pc, work, outputs, window, filepath_edit, calculate_enabled,
                   calculate_text, export_enabled, results_data, worker, runs,
                   pending_runs, message_box, slot_exception>>

\* on_calculation_finished: stores the result, then reads
\* results_data['summary']; a result without that key raises KeyError there
\* and the rest of the slot, which enables the buttons, does not run
OnCalculationFinished ==
    /\ signal = "finished"
    /\ signal' = "none"
    /\ pending_runs' = pending_runs - 1
    /\ results_data' = [run |-> worker, keys |-> result_keys, error |-> error]
    /\ IF "summary" \in result_keys
       THEN /\ calculate_enabled' = TRUE
            /\ calculate_text' = "idle"
            /\ export_enabled' = TRUE
            /\ UNCHANGED slot_exception
       ELSE /\ slot_exception' = "KeyError"
            /\ UNCHANGED <<calculate_enabled, calculate_text, export_enabled>>
    /\ UNCHANGED <<inputs, pc, work, outputs, window, filepath_edit, worker, runs,
                   signals_emitted, message_box>>

\* mutant of OnCalculationError: Export is enabled after an error
OnCalculationError_enables_export ==
    /\ signal = "error"
    /\ signal' = "none"
    /\ pending_runs' = pending_runs - 1
    /\ message_box' = "critical"
    /\ calculate_enabled' = TRUE
    /\ calculate_text' = "idle"
    /\ export_enabled' = TRUE
    /\ UNCHANGED <<inputs, pc, work, outputs, window, filepath_edit, results_data,
                   worker, runs, signals_emitted, slot_exception>>

\* on_calculation_error: shows the message and enables Calculate again
OnCalculationError ==
    /\ signal = "error"
    /\ signal' = "none"
    /\ pending_runs' = pending_runs - 1
    /\ message_box' = "critical"
    /\ calculate_enabled' = TRUE
    /\ calculate_text' = "idle"
    /\ export_enabled' = FALSE
    /\ UNCHANGED <<inputs, pc, work, outputs, window, filepath_edit, results_data,
                   worker, runs, signals_emitted, slot_exception>>

\* run_calculation of "legacy": calls calculate_costs with the keyword
\* excluded_skus, which that function does not take: TypeError leaves the
\* slot before results_data or a button is touched
RunCalculationLegacy ==
    /\ window = "legacy"
    /\ calculate_enabled
    /\ filepath_edit # ""
    /\ runs < MaxRuns
    /\ runs' = runs + 1
    /\ slot_exception' = "TypeError"
    /\ UNCHANGED <<inputs, pc, work, outputs, window, filepath_edit, calculate_enabled,
                   calculate_text, export_enabled, results_data, worker, pending_runs,
                   signal, signals_emitted, message_box>>

\* a window just created; load_settings may have restored a path
InitUI ==
    /\ window \in {"app", "legacy"}
    /\ filepath_edit \in {"", "orders.csv"}
    /\ WindowCreated
    /\ entry = "desktop" /\ file_exists = FALSE /\ columns = {} /\ df = <<>>
    /\ Config(TestTariff, <<1, 1>>, {})
    /\ FreshFrames
    /\ pc = "idle"

NextUI ==
    \/ OpenFileDialog
    \/ RunCalculationNoPath
    \/ RunCalculation
    \/ RunCalculationLegacy
    \/ NoFile
    \/ ReadCsv
    \/ ValidateFail
    \/ ValidateOk
    \/ FilterStatus
    \/ FilterSku
    \/ FilterDate
    \/ ReturnEmpty
    \/ Group
    \/ Price
    \/ Summarize
    \/ WorkerEmit
    \/ OnCalculationFinished
    \/ OnCalculationError

\* the worker thread runs calculate_costs and emits
WorkerSteps ==
    \/ NoFile \/ ReadCsv \/ ValidateFail \/ ValidateOk \/ FilterStatus \/ FilterSku
    \/ FilterDate \/ ReturnEmpty \/ Group \/ Price \/ Summarize \/ WorkerEmit

\* the main thread's event loop delivers queued signals to their slots
Slots == OnCalculationFinished \/ OnCalculationError

\* The thread, once started, keeps running, and the event loop keeps
\* delivering: weak fairness of both.  Clicks are up to the user.
SpecUI == InitUI /\ [][NextUI]_vars /\ WF_vars(WorkerSteps) /\ WF_vars(Slots)

----------------------------------------------------------------------------
\* Claims

\* the rows of order `name` that survived the filters
Surviving(name) == RowsOf(fulfilled_df, name)

\* the distinct SKUs present among rows (a missing SKU is no value)
DistinctSkus(rows) == {rows[i].sku : i \in 1..Len(rows)} \ {NaN}

\* x is y rounded to a whole cent: a multiple of 10 mills within half a cent
IsRounded(x, y) == x % 10 = 0 /\ 2 * x <= 2 * y + 10 /\ 2 * x >= 2 * y - 10

\* C1: every emitted order summary carries N = the number of distinct SKUs
\* and Q = the sum of the quantities of the order's surviving rows, and its
\* cost is (first_sku_cost if N >= 1) + ((N-1) * next_sku_cost if N > 1)
\* + Q * unit_cost, rounded to two decimals.
C1_CostFormula ==
    \A i \in 1..Len(order_summaries) :
        LET o == order_summaries[i]
            N == Cardinality(DistinctSkus(Surviving(o.name)))
            Q == SumOver(Surviving(o.name), "quantity")
        IN  /\ o.unique_skus = N
            /\ o.units = Q
            /\ IsRounded(o.cost,
                         (IF N >= 1 THEN first_sku_cost ELSE 0)
                         + (IF N > 1 THEN (N - 1) * next_sku_cost ELSE 0)
                         + Q * unit_cost)

\* C1 witness: an order with two SKUs and three units priced at the sub-cent
\* tariff: 2.304 + 1.102 + 3 * 0.404 = 4.618, emitted as 4.62
C1_Witness ==
    /\ returned = "success"
    /\ <<first_sku_cost, next_sku_cost, unit_cost>> = SubCentTariff
    /\ \E i \in 1..Len(order_summaries) :
          /\ order_summaries[i].unique_skus = 2
          /\ order_summaries[i].units = 3
          /\ order_summaries[i].cost = 4620

\* C2: on a successful run the totals are the fold of the emitted order
\* summaries: their number, the sum of their units, the sum of their costs.
C2_TotalsAreFold ==
    (returned = "success" /\ entry \in CalcEntries) =>
        /\ totals.processed_orders_count = Len(order_summaries)
        /\ totals.total_units = SumOver(order_summaries, "units")
        /\ totals.total_cost_bgn = SumOver(order_summaries, "cost")

SummaryNames == {order_summaries[i].name : i \in 1..Len(order_summaries)}

\* order `name` has line items, and every one of them has an excluded SKU
AllExcluded(name) ==
    /\ RowsOf(df, name) # <<>>
    /\ \A i \in 1..Len(df) : df[i].Name = name => df[i].sku \in excluded_skus

\* C3: an order whose every line item has an excluded SKU appears in neither
\* the order summaries nor the line-item table, and is not counted in
\* processed_orders_count.
C3_OrderDrop ==
    /\ \A n \in Names(df) :
          AllExcluded(n) => n \notin SummaryNames /\ n \notin Names(line_item_df)
    /\ totals.processed_orders_count
          <= Cardinality({n \in Names(df) : ~AllExcluded(n)})

\* C3 witness: a desktop run that emitted an order and dropped another one,
\* fulfilled and in range, because all its SKUs are excluded
C3_Witness ==
    /\ returned = "success"
    /\ order_summaries # <<>>
    /\ \E n \in Names(df) :
          /\ AllExcluded(n)
          /\ \A i \in 1..Len(df) :
                df[i].Name = n =>
                    df[i].status = "fulfilled" /\ df[i].fulfilled_at = TsCell(1, 1)

DatesSupplied == start_date_str # NoDate /\ end_date_str # NoDate

\* C4: with a date range, in every entry point, a line item that reaches the
\* date stage stamped at end 23:59:59 or at start 00:00:00 is kept, and one
\* stamped at end + 1 day 00:00:01 is dropped.
C4_EndDayInclusive ==
    (returned = "success" /\ DatesSupplied /\ start_date_str <= end_date_str) =>
        \A i \in 1..Len(status_df) :
            LET r == status_df[i]
            IN  (r.fulfilled_at.kind = "ts" /\ r.sku \notin excluded_skus) =>
                  /\ r.fulfilled_at = TsCell(end_date_str, EndOfDay)
                        => r.idx \in Idxs(fulfilled_df)
                  /\ r.fulfilled_at = TsCell(start_date_str, 0)
                        => r.idx \in Idxs(fulfilled_df)
                  /\ r.fulfilled_at = TsCell(end_date_str + 1, 1)
                        => r.idx \notin Idxs(fulfilled_df)

\* the row's fulfilment date parses and lies within [start 00:00:00, end 23:59:59]
InClaimedRange(r) ==
    /\ ToDatetime(r.fulfilled_at) # NaT
    /\ ToDatetime(r.fulfilled_at) >= DayStart(start_date_str)
    /\ ToDatetime(r.fulfilled_at) <= DayStart(end_date_str) + EndOfDay

\* C5: the date range filters line items, not orders: the rows that are
\* priced and the rows of the line-item table all lie inside the range, also
\* when another line item of their order lies outside it.
C5_PerLineItem ==
    (returned = "success" /\ DatesSupplied /\ entry \in CalcEntries) =>
        /\ \A i \in 1..Len(fulfilled_df) :
              fulfilled_df[i].fulfilled_at.kind = "ts" => InClaimedRange(fulfilled_df[i])
        /\ \A i \in 1..Len(line_item_df) :
              line_item_df[i].fulfilled_at.kind = "ts" => InClaimedRange(line_item_df[i])

\* C6: with a date range, no line item whose fulfilled_at is empty or
\* unparsable is priced or listed, even if its order has items in range.
C6_NoUnparsedDates ==
    (returned = "success" /\ DatesSupplied) =>
        /\ \A i \in 1..Len(fulfilled_df) : ToDatetime(fulfilled_df[i].fulfilled_at) # NaT
        /\ \A i \in 1..Len(line_item_df) : ToDatetime(line_item_df[i].fulfilled_at) # NaT

\* C7: without a date range, an order whose line items have a blank
\* fulfilled_at is not in the order details and not counted in the totals.
C7_BlankDateIgnored ==
    (returned = "success" /\ entry \in CalcEntries /\ ~DatesSupplied) =>
        /\ \A n \in Names(df) :
              (\A i \in 1..Len(df) : df[i].Name = n => df[i].fulfilled_at = EmptyCell)
                  => n \notin SummaryNames
        /\ totals.processed_orders_count
              <= Cardinality({n \in Names(df) :
                    \E i \in 1..Len(df) :
                        df[i].Name = n /\ df[i].fulfilled_at # EmptyCell})

\* the frame the status filter reads
StatusInput == IF entry = "cli" THEN main_df ELSE df

StatusFilterDone ==
    \/ pc \in {"status_filtered", "sku_filtered", "parsed", "filtered", "grouped", "priced"}
    \/ pc = "done" /\ returned = "success"

\* C8: a row survives the status filter if and only if its status is exactly
\* "fulfilled"; rows with any other status, "Fulfilled" or a missing one
\* included, are in no order group, summary, total or line item.
C8_StatusExact ==
    StatusFilterDone =>
        /\ Idxs(status_df) =
              {StatusInput[i].idx : i \in {j \in 1..Len(StatusInput) :
                                              StatusInput[j].status = "fulfilled"}}
        /\ \A i \in 1..Len(fulfilled_df) : fulfilled_df[i].status = "fulfilled"
        /\ \A i \in 1..Len(line_item_df) : line_item_df[i].status = "fulfilled"
        /\ \A i \in 1..Len(orders) : \A j \in 1..Len(orders[i].group) :
              orders[i].group[j].status = "fulfilled"
        /\ \A i \in 1..Len(order_summaries) :
              order_summaries[i].units <=
                  SumOver(SelectSeq(RowsOf(df, order_summaries[i].name),
                                    LAMBDA r : r.status = "fulfilled"), "quantity")
        /\ totals.total_units <=
              SumOver(SelectSeq(df, LAMBDA r : r.status = "fulfilled"), "quantity")

\* C8 witness: a successful run over a table with a "fulfilled" row and a
\* "Fulfilled" row of the same order, of which only the first was counted
C8_Witness ==
    /\ returned = "success"
    /\ Len(df) = 2 /\ df[1].Name = df[2].Name
    /\ df[1].status = "Fulfilled" /\ df[2].status = "fulfilled"
    /\ Idxs(status_df) = {2}
    /\ totals.total_units = 1

\* the columns the test fixture has: all but 'Fulfillment Status'
FixtureColumns == {"Name", "Lineitem quantity", "Lineitem sku", "Lineitem name",
                   "Fulfilled at"}

\* C9: calculate_costs accepts a table that has the order id, quantity, SKU,
\* product name and fulfilled-at columns but no fulfillment-status column:
\* the run ends with error None.
C9_NoStatusColumnAccepted ==
    (/\ entry \in {"desktop", "legacy"}
     /\ file_exists
     /\ FixtureColumns \subseteq columns
     /\ "Fulfillment Status" \notin columns
     /\ pc = "done") => (returned = "success" /\ error = <<>>)

MissingRequired ==
    \E k \in 1..Len(required_columns(entry)) : required_columns(entry)[k] \notin columns

\* C10: if a required column is absent, the run returns an error naming the
\* first missing column in required-column order, and no row is filtered,
\* grouped or priced: the result has no totals, summaries or line items.
C10_MissingColumn ==
    (entry \in CalcEntries /\ file_exists /\ MissingRequired) =>
        /\ pc \in {"start", "read", "done"}
        /\ fulfilled_df = <<>> /\ status_df = <<>> /\ orders = <<>>
        /\ order_summaries = <<>> /\ line_item_df = <<>> /\ totals = ZeroTotals
        /\ pc = "done" =>
              /\ returned = "error"
              /\ \E k \in 1..Len(required_columns(entry)) :
                    /\ error = <<"Missing required column", required_columns(entry)[k]>>
                    /\ required_columns(entry)[k] \notin columns
                    /\ \A j \in 1..(k - 1) : required_columns(entry)[j] \in columns

\* C10 witness: a run over a non-empty table that lacks two required columns
\* has returned its error
C10_Witness ==
    /\ entry \in CalcEntries
    /\ pc = "done" /\ returned = "error"
    /\ df # <<>>
    /\ "Name" \notin columns /\ "Fulfilled at" \notin columns
    /\ "Fulfillment Status" \in columns
    /\ error = <<"Missing required column", "Name">>

SkuFilterDone ==
    entry = "desktop" /\
        (pc \in {"sku_filtered", "filtered", "grouped", "priced"}
         \/ (pc = "done" /\ returned = "success"))

NotExcluded(rows) == SelectSeq(rows, LAMBDA r : r.sku \notin excluded_skus)

\* C11: with a user exclusion list, exactly the rows whose SKU equals a
\* listed SKU are removed before aggregation, rows with other SKUs of the
\* same order are kept; each order's N and Q are those of its non-excluded
\* rows, and no line item of the output has an excluded SKU.
C11_UserExclusion ==
    SkuFilterDone =>
        /\ pc = "sku_filtered" =>
              Idxs(fulfilled_df) = Idxs(NotExcluded(status_df))
        /\ \A i \in 1..Len(fulfilled_df) : fulfilled_df[i].sku \notin excluded_skus
        /\ \A i \in 1..Len(line_item_df) : line_item_df[i].sku \notin excluded_skus
        /\ \A i \in 1..Len(order_summaries) :
              LET o == order_summaries[i]
                  kept == NotExcluded(RowsOf(fulfilled_df, o.name))
              IN  /\ o.unique_skus = Cardinality(DistinctSkus(kept))
                  /\ o.units = SumOver(kept, "quantity")

\* C11 witness: order 1 has a row of the excluded SKU A and a row of SKU B,
\* both fulfilled; it is emitted with N = 1 and Q = 1 and only the B row is
\* listed
C11_Witness ==
    /\ entry = "desktop" /\ returned = "success"
    /\ excluded_skus = {"A"}
    /\ Len(df) = 2 /\ df[1].Name = 1 /\ df[2].Name = 1
    /\ df[1].sku = "A" /\ df[2].sku = "B"
    /\ Idxs(line_item_df) = {2}
    /\ order_summaries = <<[name |-> 1, unique_skus |-> 1, units |-> 1, cost |-> 12000]>>

\* C12: no row whose SKU is in the built-in virtual/service set contributes
\* to any order's N, Q, cost or to the line-item table, whatever the user's
\* exclusion list.  Violated: the code excludes only the user's list.
C12_BuiltInExcluded ==
    (entry \in {"desktop", "legacy"} /\ pc = "done" /\ returned = "success") =>
        /\ \A i \in 1..Len(fulfilled_df) : fulfilled_df[i].sku \notin BuiltInSkus
        /\ \A i \in 1..Len(line_item_df) : line_item_df[i].sku \notin BuiltInSkus

\* C13: when filtering removes every row the run is a success: no error,
\* processed_orders_count = 0, total_units = 0, total cost 0.0 and empty
\* order details.
C13_EmptyIsSuccess ==
    (entry \in CalcEntries /\ pc = "done" /\ file_exists /\ ~MissingRequired
        /\ fulfilled_df = <<>>) =>
        /\ returned = "success"
        /\ error = <<>>
        /\ totals.processed_orders_count = 0
        /\ totals.total_units = 0
        /\ totals.total_cost_bgn = 0
        /\ totals.total_cost_eur = 0
        /\ order_summaries = <<>>
        /\ line_item_df = <<>>

\* C13 witness: fulfilled rows exist, a date range is given and no row falls
\* in it
C13_Witness ==
    /\ entry = "desktop" /\ pc = "done" /\ returned = "success"
    /\ DatesSupplied
    /\ status_df # <<>>
    /\ fulfilled_df = <<>>
    /\ totals.processed_orders_count = 0

RunWith(excluded) ==
    calculate_costs(df, first_sku_cost, next_sku_cost, unit_cost,
                    start_date_str, end_date_str, excluded)

\* C14: for the same table, tariffs and date range, a desktop run with
\* exclusion set E2 has total_units, total cost and processed_orders_count
\* no greater than the run with any E1 that is a subset of E2.
C14_ExclusionMonotone ==
    (entry = "desktop" /\ pc = "done" /\ returned = "success") =>
        /\ totals = RunWith(excluded_skus)
        /\ \A E1 \in SUBSET excluded_skus :
              /\ totals.total_units <= RunWith(E1).total_units
              /\ totals.total_cost_bgn <= RunWith(E1).total_cost_bgn
              /\ totals.total_cost_eur <= RunWith(E1).total_cost_eur
              /\ totals.processed_orders_count <= RunWith(E1).processed_orders_count

\* C14 witness: a run excluding A and B that is strictly below the run
\* excluding only A in units, cost and order count
C14_Witness ==
    /\ entry = "desktop" /\ pc = "done" /\ returned = "success"
    /\ excluded_skus = {"A", "B"}
    /\ totals.total_units < RunWith({"A"}).total_units
    /\ totals.total_cost_bgn < RunWith({"A"}).total_cost_bgn
    /\ totals.processed_orders_count < RunWith({"A"}).processed_orders_count
    /\ RunWith({"A"}).total_units < RunWith({}).total_units

IsSubSequenceOfInput(out) ==
    /\ \A i \in 1..Len(out) : out[i].idx \in 1..Len(df) /\ out[i] = df[out[i].idx]
    /\ \A i, j \in 1..Len(out) : i < j => out[i].idx < out[j].idx

PassedEveryStage(r) ==
    /\ r.status = "fulfilled"
    /\ r.sku \notin excluded_skus
    /\ DatesSupplied => InClaimedRange(r)

\* C15: the filtered row set and the line-item table are a sub-sequence of
\* the input rows (no row duplicated or invented, input order kept) and every
\* output row passed every enabled stage: status, SKU exclusion and date
\* range.  Violated: the desktop date stage keeps out-of-range rows.
C15_SubSequence ==
    (entry = "desktop" /\ pc = "done" /\ returned = "success") =>
        /\ IsSubSequenceOfInput(fulfilled_df)
        /\ IsSubSequenceOfInput(line_item_df)
        /\ \A i \in 1..Len(fulfilled_df) : PassedEveryStage(fulfilled_df[i])
        /\ \A i \in 1..Len(line_item_df) : PassedEveryStage(line_item_df[i])

CarriesTotals == "totals" \in result_keys \/ TotalsKeys \subseteq result_keys

CarriesSummaries == "order_summary_df" \in result_keys \/ "orders" \in result_keys

CarriesLineItems == "line_item_df" \in result_keys

\* C17: every finished run of calculate_costs returned exactly one of: an
\* error result with a message and no totals, summaries or line items, or a
\* success result with totals, summaries and line items and no error
\* message.  Violated: the legacy calculator's success result has no line
\* items.
C17_ErrorOrSuccess ==
    (entry \in {"desktop", "legacy"} /\ pc = "done") =>
        \/ /\ returned = "error"
           /\ error # <<>>
           /\ ~CarriesTotals /\ ~CarriesSummaries /\ ~CarriesLineItems
        \/ /\ returned = "success"
           /\ error = <<>>
           /\ CarriesTotals /\ CarriesSummaries /\ CarriesLineItems

\* C18: a run whose end date is earlier than its start date is rejected
\* before any row is processed: it returns an error result, not a
\* zero-valued success.  Violated: no entry point compares the two dates.
C18_InvalidConfigRejected ==
    (entry \in CalcEntries /\ pc = "done" /\ DatesSupplied
        /\ end_date_str < start_date_str) =>
        /\ returned = "error"
        /\ status_df = <<>>

\* C19: if the input file cannot be found, calculate_costs returns an error
\* result whose message says the file was not found, not the generic
\* unexpected-error message, and validates and processes nothing.
C19_FileNotFound ==
    (entry \in {"desktop", "legacy"} /\ ~file_exists) =>
        /\ pc \in {"start", "done"}
        /\ fulfilled_df = <<>> /\ status_df = <<>>
        /\ orders = <<>> /\ order_summaries = <<>> /\ line_item_df = <<>>
        /\ pc = "done" =>
              /\ returned = "error"
              /\ error = <<"The specified file was not found.">>
              /\ result_keys = {"error"}

\* C19 witness: a calculator run on an absent file has returned
C19_Witness ==
    /\ entry = "legacy" /\ ~file_exists /\ pc = "done"
    /\ returned = "error"
    /\ error = <<"The specified file was not found.">>

\* C20: every emitted order summary has N >= 1, and an order whose
\* surviving rows all have a missing SKU is counted with N = 1 and charged
\* first_sku_cost.  Violated: nunique() skips missing values, so such an
\* order is emitted with N = 0 and pays the unit cost only.
C20_AtLeastOneSku ==
    (entry \in CalcEntries /\ pc = "done" /\ returned = "success") =>
        \A i \in 1..Len(order_summaries) :
            LET o == order_summaries[i]
            IN  /\ o.unique_skus >= 1
                /\ (\A k \in 1..Len(Surviving(o.name)) : Surviving(o.name)[k].sku = NaN) =>
                      /\ o.unique_skus = 1
                      /\ o.cost = Round2(first_sku_cost + o.units * unit_cost)

\* the cost the loop emits for an order of n distinct SKUs and q units at the
\* run's tariff
CostAt(n, q) == Round2(order_cost_bgn(n, q, first_sku_cost, next_sku_cost, unit_cost))

SkuCounts == 1..(MaxRows + 1)

UnitCounts == 0..(2 * MaxRows + 1)

\* C21 as stated: at every valid tariff the per-order cost is strictly
\* increasing in N at equal Q and in Q at equal N.  Violated at a tariff
\* with a zero component, and by rounding at sub-cent tariffs.
C21_StrictlyIncreasing ==
    pc = "priced" =>
        /\ \A n1, n2 \in SkuCounts : \A q \in UnitCounts :
              n1 < n2 => CostAt(n1, q) < CostAt(n2, q)
        /\ \A n \in SkuCounts : \A q1, q2 \in UnitCounts :
              q1 < q2 => CostAt(n, q1) < CostAt(n, q2)

\* C21 amended: at every tariff with non-negative components the per-order
\* cost is non-decreasing in N and in Q.
C21_NonDecreasing ==
    pc = "priced" =>
        \A n1, n2 \in SkuCounts : \A q1, q2 \in UnitCounts :
            (n1 <= n2 /\ q1 <= q2) => CostAt(n1, q1) <= CostAt(n2, q2)

\* C21 witness: an order priced at the tariff whose first and next SKU costs
\* are zero; one more SKU would not raise its cost
C21_Witness ==
    /\ pc = "priced"
    /\ <<first_sku_cost, next_sku_cost, unit_cost>> = UnitOnlyTariff
    /\ \E i \in 1..Len(order_summaries) :
          LET o == order_summaries[i]
          IN  /\ o.unique_skus = 1
              /\ o.cost = CostAt(o.unique_skus, o.units)
              /\ o.cost = CostAt(o.unique_skus + 1, o.units)

\* the position of a stage in the order Validated, Filtered, Grouped, Priced,
\* Summarized (the filter stage has one position per filter)
StageRank(p) ==
    CASE p = "start" -> 0
      [] p = "read" -> 1
      [] p \in {"validated", "split"} -> 2
      [] p = "status_filtered" -> 3
      [] p = "sku_filtered" -> 4
      [] p = "parsed" -> 5
      [] p = "filtered" -> 6
      [] p = "grouped" -> 7
      [] p = "priced" -> 8
      [] p = "done" -> 9

\* C22: a run passes through the stages in order and never steps back; a run
\* whose column validation fails ends with an error without filtering,
\* grouping, pricing or summarizing anything; every run terminates.
C22_StageOrder ==
    /\ [][StageRank(pc') > StageRank(pc)]_vars
    /\ []((entry \in CalcEntries /\ file_exists /\ MissingRequired) =>
            /\ pc \in {"start", "read", "done"}
            /\ fulfilled_df = <<>> /\ status_df = <<>> /\ orders = <<>>
            /\ order_summaries = <<>> /\ line_item_df = <<>>
            /\ pc = "done" => returned = "error")
    /\ <>(pc = "done")

\* C22 witness: a desktop run that went through every stage and returned its
\* summaries
C22_Witness ==
    /\ entry = "desktop" /\ pc = "done" /\ returned = "success"
    /\ DatesSupplied
    /\ orders # <<>> /\ order_summaries # <<>> /\ line_item_df # <<>>

\* C23: a timestamp with a timezone offset is compared against the range by
\* its wall-clock value, the offset discarded: a row that reaches the date
\* stage is kept exactly when its wall-clock time lies within start 00:00:00
\* and end 23:59:59 (in the desktop calculator, when a row of its order
\* does).  Violated: filter_orders converts the timestamp to UTC.
C23_WallClock ==
    (entry \in {"desktop", "legacy", "cli"} /\ pc = "done" /\ returned = "success"
        /\ DatesSupplied) =>
        \A i \in 1..Len(status_df) :
            LET r == status_df[i]
            IN  r.idx \in Idxs(fulfilled_df) <=>
                    IF entry = "desktop"
                    THEN \E k \in 1..Len(status_df) :
                            /\ status_df[k].Name = r.Name
                            /\ InClaimedRange(status_df[k])
                    ELSE InClaimedRange(r)

\* the rows left when the date-range stage runs before the SKU exclusion
DateThenSku ==
    SkuFilter(DateFilter("desktop", status_df, start_date_str, end_date_str),
              excluded_skus)

\* C24: the SKU-exclusion stage and the date-range stage commute: applying
\* the exclusion after the date filter gives the same surviving rows, order
\* summaries and totals as applying it before, as the code does.  Violated:
\* the desktop date stage keeps or drops whole orders, so it depends on which
\* rows the exclusion left.
C24_StagesCommute ==
    (entry = "desktop" /\ pc = "done" /\ returned = "success") =>
        /\ fulfilled_df = DateThenSku
        /\ order_summaries =
              Summaries(GroupBy(DateThenSku), first_sku_cost, next_sku_cost, unit_cost)
        /\ totals = DesktopTotals(
              Summaries(GroupBy(DateThenSku), first_sku_cost, next_sku_cost, unit_cost))

\* C25: in the "app" window every calculation started completes with exactly
\* one worker signal, and afterwards the Calculate button is eventually
\* enabled again with its idle label, whether the run succeeded or failed.
\* Violated: after a successful run the finished slot raises KeyError before
\* it enables the button.
C25_SignalThenIdle ==
    /\ [](signals_emitted <= 1)
    /\ []((window = "app" /\ runs > 0 /\ pending_runs = 0) => signals_emitted = 1)
    /\ []((window = "app" /\ pending_runs > 0) =>
            <>(calculate_enabled /\ calculate_text = "idle"))

\* C26: in the "app" window at most one worker is in flight: while a run is
\* pending the Calculate button is disabled, no further worker is started and
\* self.worker / self.thread are not overwritten.
C26_OneWorker ==
    /\ [](pending_runs <= 1)
    /\ [](pending_runs > 0 => ~calculate_enabled)
    /\ [][pending_runs > 0 => (worker' = worker /\ runs' = runs)]_vars

\* C26 witness: the second calculation of a window, in the middle of
\* calculate_costs, with the button disabled
C26_Witness ==
    /\ window = "app" /\ runs = MaxRuns /\ pending_runs = 1
    /\ pc = "grouped"
    /\ ~calculate_enabled /\ calculate_text = "busy"

\* C27: in both windows the Export button is enabled only if the most
\* recently started calculation has completed successfully and results_data
\* holds that run's error-free result; it is disabled initially, while a
\* calculation is running and after a calculation that ended in an error.
C27_ExportOnlyAfterSuccess ==
    /\ export_enabled =>
          /\ runs > 0 /\ pending_runs = 0
          /\ returned = "success"
          /\ results_data.run = runs
          /\ results_data.error = <<>>
    /\ runs = 0 => ~export_enabled
    /\ pending_runs > 0 => ~export_enabled
    /\ (runs > 0 /\ pending_runs = 0 /\ returned = "error") => ~export_enabled

\* C27 witness: a second calculation has ended in an error after a first one
\* that also did; Export is disabled
C27_Witness ==
    /\ window = "app" /\ runs = MaxRuns /\ pending_runs = 0
    /\ returned = "error" /\ message_box = "critical"
    /\ calculate_enabled /\ ~export_enabled

\* C28: in filter_orders the Filtered Orders output and the Problematic
\* Orders output are disjoint by order: an order in the problematic list
\* contributes no row to the filtered output.  Violated: of an order with an
\* unreadable date only the unreadable rows leave the filtered frame.
C28_OutputsDisjoint ==
    (entry = "cli" /\ pc = "done" /\ returned = "success") =>
        Names(line_item_df) \cap Names(problematic_orders_df) = {}

\* C29: on every successful desktop run the line-item table and the order
\* summaries describe the same rows: the order ids of the line items are
\* the order ids of the summaries, and the line items' quantities add up to
\* total_units.
C29_LineItemsMatchSummaries ==
    (entry = "desktop" /\ pc = "done" /\ returned = "success") =>
        /\ Names(line_item_df) = SummaryNames
        /\ SumOver(line_item_df, "quantity") = totals.total_units

\* C29 witness: two orders, one of them with two units on its row
C29_Witness ==
    /\ entry = "desktop" /\ pc = "done" /\ returned = "success"
    /\ Names(line_item_df) = OrderNames
    /\ Len(line_item_df) = MaxRows
    /\ totals.total_units > Len(line_item_df)
    /\ totals.processed_orders_count = MaxOrders

====
